---- MODULE Spec2Model ----
(***************************************************************************)
(* Model of the Loki MCP server's tool layer (src/src/server.py) and of    *)
(* its interval parser (src/src/parse_interval.py).                        *)
(*                                                                         *)
(* One tool invocation at a time is followed from the call, through the    *)
(* single blocking session.get, to the value returned or the exception     *)
(* raised.  Each tool is two actions, split at the blocking HTTP call:     *)
(*   <tool>_send : the code from the start of the handler up to and        *)
(*                 including session.get(...) being issued;                *)
(*   <tool>_recv : the code from the outcome of session.get(...) to the    *)
(*                 return / except clause.                                 *)
(*                                                                         *)
(* Encodings                                                               *)
(*   Optional[T]   : <<>> is None, <<x>> is the value x.                    *)
(*   interval/step : a Python str is a sequence of one-character strings.  *)
(*   timestamps    : integers counted in minutes (one unit stands for      *)
(*                   60 * 10^9 ns); the float arithmetic of lines 58-59 is *)
(*                   taken as exact.                                       *)
(*   JSON values   : [t |-> "null" | "list" | "obj", v |-> payload].       *)
(***************************************************************************)
EXTENDS Integers, Sequences, FiniteSets, TLC

VARIABLES
    pc,               \* "idle" | "sent" (blocked in session.get) | "done"
    tool,             \* name of the tool being invoked ("" when idle)
    request,          \* the LokiRequest passed to the tool
    clock,            \* value read from time.time() by the invocation
    start_timestamp,  \* local of query_range (line 59), Optional
    sent,             \* sequence of HTTP GETs issued by this invocation
    response,         \* what session.get produced
    outcome,          \* what the caller got: a return value or an exception
    arg,              \* argument of a direct parse_interval call
    ret               \* result of that call

vars == <<pc, tool, request, clock, start_timestamp, sent, response, outcome, arg, ret>>

-----------------------------------------------------------------------------
(* Bounds *)

\* request.start / request.end range over None and 0..MaxTime,
\* the clock over 1..MaxTime+1
MaxTime == 3

\* longest string handed to parse_interval in SpecParse
MaxLen == 3

-----------------------------------------------------------------------------
(* Python values *)

None == <<>>
Some(x) == <<x>>

\* bool(x) of an Optional[int]: None and 0 are falsy
TruthyInt(o) == o # None /\ o[1] # 0

\* bool(x) of an Optional[str]: None and "" are falsy (str as char sequence)
TruthyStr(o) == o # None /\ o[1] # <<>>

\* f"{x}" of an Optional[str]
Format(o) == IF o = None THEN "None" ELSE o[1]

JNull == [t |-> "null", v |-> <<>>]
JList(s) == [t |-> "list", v |-> s]
JObj(f) == [t |-> "obj", v |-> f]

EmptyList == JList(<<>>)
EmptyDict == JObj(<<>>)

\* what a handler hands to its caller
NoOutcome == [kind |-> "none", value |-> JNull, exc |-> ""]
Return(j) == [kind |-> "return", value |-> j, exc |-> ""]
Raise(e) == [kind |-> "raise", value |-> JNull, exc |-> e]

-----------------------------------------------------------------------------
(* parse_interval.py *)

Digits == <<"0", "1", "2", "3", "4", "5", "6", "7", "8", "9">>

IsDigit(c) == \E i \in 1..Len(Digits) : Digits[i] = c

DigitVal(c) == (CHOOSE i \in 1..Len(Digits) : Digits[i] = c) - 1

RECURSIVE DecVal(_)
DecVal(s) == IF s = <<>> THEN 0
             ELSE 10 * DecVal(SubSeq(s, 1, Len(s) - 1)) + DigitVal(s[Len(s)])

\* Python's int(str): an optional sign followed by at least one digit.
\* (Surrounding whitespace and "_" separators, which int() also accepts, are
\* not in the alphabet the inputs are drawn from.)
py_int(s) ==
    LET signed == s # <<>> /\ s[1] \in {"-", "+"}
        body   == IF signed THEN Tail(s) ELSE s
        neg    == signed /\ s[1] = "-"
    IN  IF body # <<>> /\ \A i \in 1..Len(body) : IsDigit(body[i])
        THEN [ok |-> TRUE, val |-> IF neg THEN 0 - DecVal(body) ELSE DecVal(body)]
        ELSE [ok |-> FALSE, val |-> 0]

endswith(s, c) == Len(s) > 0 /\ s[Len(s)] = c

\* interval[:-1]
AllButLast(s) == SubSeq(s, 1, Len(s) - 1)

NoRet == [kind |-> "none", minutes |-> 0]

\* timedelta(<unit>=int(interval[:-1])), as a number of minutes;
\* int() raising ValueError leaves parse_interval through that exception
timedelta(s, unit) ==
    LET n == py_int(AllButLast(s))
    IN  IF n.ok THEN [kind |-> "timedelta", minutes |-> n.val * unit]
        ELSE [kind |-> "ValueError", minutes |-> 0]

\* parse_interval(interval); o is the Python object passed: None has no
\* .endswith, which raises AttributeError
parse_interval(o) ==
    IF o = None THEN [kind |-> "AttributeError", minutes |-> 0]
    ELSE LET s == o[1]
         IN  IF endswith(s, "m") THEN timedelta(s, 1)
             ELSE IF endswith(s, "h") THEN timedelta(s, 60)
             ELSE IF endswith(s, "d") THEN timedelta(s, 24 * 60)
             ELSE [kind |-> "ValueError", minutes |-> 0]

-----------------------------------------------------------------------------
(* server.py: the request, the backend and the response *)

\* LokiRequest field defaults (lines 30-37)
DefaultLimit == 100

DefaultRequest ==
    [query |-> Some("q"), limit |-> DefaultLimit, start |-> None, end |-> None,
     interval |-> None, step |-> None, direction |-> Some("backward"),
     label |-> None, selector |-> None]

\* query-string parameters of one GET; a key that is missing from the dict and
\* a key whose value is None (which requests drops) are both None here
NoParams ==
    [query |-> None, limit |-> None, start |-> None, end |-> None, time |-> None,
     direction |-> None, interval |-> None, step |-> None]

NoResponse == [kind |-> "none", status |-> 0, body |-> ""]

\* a or b on Optional[str] operands: a when a is truthy, else b
PyOrStepFirst(a, b) == IF TruthyStr(b) THEN b ELSE a
PyOr(a, b) == IF TruthyStr(a) THEN a ELSE b

\* the params dict of query_range
query_range_params(req, end_timestamp, start_ts) ==
    [NoParams EXCEPT
        !.query = req.query,
        !.limit = Some(req.limit),
        !.start = IF TruthyInt(req.start) THEN req.start ELSE Some(start_ts),
        !.end = IF TruthyInt(req.end) THEN req.end ELSE Some(end_timestamp),
        !.direction = req.direction,
        !.interval = IF TruthyStr(req.interval) THEN req.interval ELSE None,
        !.step = IF TruthyStr(req.step) THEN req.step ELSE None]

\* the params dict of instant_query
instant_query_params(req, timestamp) ==
    [NoParams EXCEPT
        !.query = req.query,
        !.limit = Some(req.limit),
        !.time = IF TruthyInt(req.end) THEN req.end ELSE Some(timestamp),
        !.direction = req.direction]

\* request.query if request.query not in [None, "{}"] else ""
NormQuery(q) == IF q = None \/ q = Some("{}") THEN Some("") ELSE q

\* the params dict of get_labels, get_label_values and get_log_stats
label_params(req) ==
    [NoParams EXCEPT !.query = NormQuery(req.query), !.start = req.start, !.end = req.end]

\* the path below {LOKI_URL}/loki/api/v1/ each tool requests
query_range_url == <<"query_range">>
instant_query_url == <<"query">>
get_labels_url == <<"labels">>
get_label_values_url(req) == <<"label", Format(req.label), "values">>
get_log_stats_url == <<"index", "stats">>

\* session.get(url, params=params): one GET goes out
session_get(log, url, params) == Append(log, [url |-> url, params |-> params])

\* response.raise_for_status(): TRUE when it raises HTTPError (4xx and 5xx)
raise_for_status_5xx_only(status) == 500 <= status /\ status < 600
raise_for_status(status) == 400 <= status /\ status < 600

\* response.json() of each body the backend is taken to send
JStr(s) == [t |-> "str", v |-> s]

Decode(body) ==
    CASE body = "streams" ->
            JObj([status |-> JStr("success"),
                  data |-> JObj([result |-> JList(<<JObj([stream |-> EmptyDict])>>)])])
      [] body = "labels" ->
            JObj([status |-> JStr("success"), data |-> JList(<<JStr("job")>>)])
      [] body = "no_data" -> JObj([status |-> JStr("success")])
      [] body = "data_null" -> JObj([status |-> JStr("success"), data |-> JNull])
      [] body = "data_empty" -> JObj([status |-> JStr("success"), data |-> EmptyDict])
      [] body = "result_null" ->
            JObj([status |-> JStr("success"), data |-> JObj([result |-> JNull])])
      [] body = "array" -> EmptyList

\* dict.get(key, default) on a dict
dict_get(j, key, default) == IF key \in DOMAIN j.v THEN j.v[key] ELSE default

\* response.json().get("data", {}).get("result", []); .get on anything but a
\* dict raises AttributeError
extract_result(j) ==
    IF j.t # "obj" THEN Raise("AttributeError")
    ELSE LET d == dict_get(j, "data", EmptyDict)
         IN  IF d.t # "obj" THEN Raise("AttributeError")
             ELSE Return(dict_get(d, "result", EmptyList))

\* response.json().get("data", [])
extract_data(j) ==
    IF j.t # "obj" THEN Raise("AttributeError")
    ELSE Return(dict_get(j, "data", EmptyList))

\* response.json() returned whole
extract_body(j) == Return(j)

\* The value the except clause returns, per tool
EmptyDefault(tl) == IF tl = "get_log_stats" THEN EmptyDict ELSE EmptyList

\* What the except clause does once a RequestException was raised in the try
\* block: log and return the default; no further request goes out
except_RequestException(tl) == Return(EmptyDefault(tl))

\* The part of a handler after session.get: raise_for_status, json(), the
\* extraction, and the except clause.  A body that is not JSON makes
\* response.json() raise; whether that exception is a RequestException (and is
\* caught) depends on the installed requests release, so both are possible.
after_get(tl, resp, jsonErrorCaught) ==
    IF resp.kind = "transport_error" THEN except_RequestException(tl)
    ELSE IF raise_for_status(resp.status) THEN except_RequestException(tl)
    ELSE IF resp.body = "not_json"
         THEN IF jsonErrorCaught THEN except_RequestException(tl) ELSE Raise("ValueError")
    ELSE IF tl \in {"query_range", "instant_query"} THEN extract_result(Decode(resp.body))
    ELSE IF tl \in {"get_labels", "get_label_values"} THEN extract_data(Decode(resp.body))
    ELSE extract_body(Decode(resp.body))

-----------------------------------------------------------------------------
(* Inputs *)

OptTimes == {None} \cup {Some(t) : t \in 0..MaxTime}

Clock == 1..(MaxTime + 1)

\* interval / step strings: absent, empty, well formed, unknown suffix,
\* empty prefix, negative prefix
OptIntervals ==
    {None, Some(<<>>), Some(<<"2", "m">>), Some(<<"1", "h">>), Some(<<"5", "x">>),
     Some(<<"m">>), Some(<<"-", "2", "m">>)}

OptQueries == {None, Some("{}"), Some("q")}

OptLabels == {None, Some(""), Some("job")}

Statuses == {200, 304, 404, 500}

Bodies == {"streams", "labels", "no_data", "data_null", "data_empty", "result_null",
           "array", "not_json"}

Responses ==
    {[kind |-> "transport_error", status |-> 0, body |-> ""]}
    \cup {[kind |-> "http", status |-> s, body |-> b] : s \in Statuses, b \in Bodies}

Chars == {"1", "2", "5", "-", "m", "h", "d", "x"}

Strings == UNION {[1..n -> Chars] : n \in 0..MaxLen}

-----------------------------------------------------------------------------
(* Actions *)

Init ==
    /\ pc = "idle"
    /\ tool = ""
    /\ request = DefaultRequest
    /\ clock = 0
    /\ start_timestamp = None
    /\ sent = <<>>
    /\ response = NoResponse
    /\ outcome = NoOutcome
    /\ arg = None
    /\ ret = NoRet

\* a tool is entered with request req
Enter(tl, req) ==
    /\ pc = "idle"
    /\ tool' = tl
    /\ request' = req
    /\ UNCHANGED <<response, arg, ret>>

\* query_range, lines 54-76
query_range_send(req, t) ==
    /\ Enter("query_range", req)
    /\ clock' = t
    /\ LET end_timestamp == t
           d == parse_interval(PyOr(req.interval, req.step))
       IN  IF d.kind # "timedelta"
           THEN /\ outcome' = Raise(d.kind)
                /\ pc' = "done"
                /\ UNCHANGED <<start_timestamp, sent>>
           ELSE /\ start_timestamp' = Some(end_timestamp - d.minutes)
                /\ sent' = session_get(sent, query_range_url,
                               query_range_params(req, end_timestamp, end_timestamp - d.minutes))
                /\ pc' = "sent"
                /\ UNCHANGED outcome

\* instant_query, lines 99-116
instant_query_send(req, t) ==
    /\ Enter("instant_query", req)
    /\ clock' = t
    /\ sent' = session_get(sent, instant_query_url, instant_query_params(req, t))
    /\ pc' = "sent"
    /\ UNCHANGED <<start_timestamp, outcome>>

\* get_labels, lines 138-150
get_labels_send(req) ==
    /\ Enter("get_labels", req)
    /\ sent' = session_get(sent, get_labels_url, label_params(req))
    /\ pc' = "sent"
    /\ UNCHANGED <<clock, start_timestamp, outcome>>

\* get_label_values, lines 173-185
get_label_values_send(req) ==
    /\ Enter("get_label_values", req)
    /\ sent' = session_get(sent, get_label_values_url(req), label_params(req))
    /\ pc' = "sent"
    /\ UNCHANGED <<clock, start_timestamp, outcome>>

\* get_log_stats, lines 207-219
get_log_stats_send(req) ==
    /\ Enter("get_log_stats", req)
    /\ sent' = session_get(sent, get_log_stats_url, label_params(req))
    /\ pc' = "sent"
    /\ UNCHANGED <<clock, start_timestamp, outcome>>

\* Recv as it would be if the except clause issued the request again
RecvRetry(tl, resp, jsonErrorCaught) ==
    /\ pc = "sent"
    /\ tool = tl
    /\ response' = resp
    /\ outcome' = after_get(tl, resp, jsonErrorCaught)
    /\ sent' = IF resp.kind = "transport_error" \/ raise_for_status(resp.status)
               THEN session_get(sent, sent[1].url, sent[1].params)
               ELSE sent
    /\ pc' = "done"
    /\ UNCHANGED <<tool, request, clock, start_timestamp, arg, ret>>

\* session.get comes back (or raises) and the handler runs to its end
Recv(tl, resp, jsonErrorCaught) ==
    /\ pc = "sent"
    /\ tool = tl
    /\ response' = resp
    /\ outcome' = after_get(tl, resp, jsonErrorCaught)
    /\ pc' = "done"
    /\ UNCHANGED <<tool, request, clock, start_timestamp, sent, arg, ret>>

\* query_range, lines 76-85
query_range_recv(resp, c) == Recv("query_range", resp, c)

\* instant_query, lines 116-125
instant_query_recv(resp, c) == Recv("instant_query", resp, c)

\* get_labels, lines 150-159
get_labels_recv(resp, c) == Recv("get_labels", resp, c)

\* get_label_values, lines 185-194
get_label_values_recv(resp, c) == Recv("get_label_values", resp, c)

\* get_log_stats, lines 219-228
get_log_stats_recv(resp, c) == Recv("get_log_stats", resp, c)

\* the invocation is over; the server waits for the next tool call
NextCall ==
    /\ pc = "done"
    /\ pc' = "idle"
    /\ tool' = ""
    /\ request' = DefaultRequest
    /\ clock' = 0
    /\ start_timestamp' = None
    /\ sent' = <<>>
    /\ response' = NoResponse
    /\ outcome' = NoOutcome
    /\ UNCHANGED <<arg, ret>>

RangeRequests ==
    {[DefaultRequest EXCEPT !.start = s, !.end = e, !.interval = i, !.step = p] :
        s \in OptTimes, e \in OptTimes, i \in OptIntervals, p \in OptIntervals}

InstantRequests == {[DefaultRequest EXCEPT !.end = e] : e \in OptTimes}

LabelRequests ==
    {[DefaultRequest EXCEPT !.query = q, !.start = s, !.end = e] :
        q \in OptQueries, s \in OptTimes, e \in OptTimes}

LabelValueRequests ==
    {[DefaultRequest EXCEPT !.query = q, !.label = l] : q \in OptQueries, l \in OptLabels}

Next ==
    \/ \E req \in RangeRequests, t \in Clock : query_range_send(req, t)
    \/ \E req \in InstantRequests, t \in Clock : instant_query_send(req, t)
    \/ \E req \in LabelRequests : get_labels_send(req)
    \/ \E req \in LabelValueRequests : get_label_values_send(req)
    \/ \E req \in LabelRequests : get_log_stats_send(req)
    \/ \E resp \in Responses, c \in BOOLEAN : query_range_recv(resp, c)
    \/ \E resp \in Responses, c \in BOOLEAN : instant_query_recv(resp, c)
    \/ \E resp \in Responses, c \in BOOLEAN : get_labels_recv(resp, c)
    \/ \E resp \in Responses, c \in BOOLEAN : get_label_values_recv(resp, c)
    \/ \E resp \in Responses, c \in BOOLEAN : get_log_stats_recv(resp, c)
    \/ NextCall

Spec == Init /\ [][Next]_vars

-----------------------------------------------------------------------------
(* parse_interval called on its own, on every string up to MaxLen *)

InitParse ==
    /\ pc = "idle"
    /\ tool = ""
    /\ request = DefaultRequest
    /\ clock = 0
    /\ start_timestamp = None
    /\ sent = <<>>
    /\ response = NoResponse
    /\ outcome = NoOutcome
    /\ arg \in {Some(s) : s \in Strings}
    /\ ret = NoRet

parse_interval_call ==
    /\ ret = NoRet
    /\ ret' = parse_interval(arg)
    /\ UNCHANGED <<pc, tool, request, clock, start_timestamp, sent, response, outcome, arg>>

NextParse == parse_interval_call

SpecParse == InitParse /\ [][NextParse]_vars

-----------------------------------------------------------------------------
(* Properties *)

\* the string query_range hands to parse_interval
Selected == PyOr(request.interval, request.step)

Malformed(o) == o # None /\ parse_interval(o).kind = "ValueError"

FailedTransport == response.kind = "transport_error"

HttpStatusIn(lo, hi) == response.kind = "http" /\ lo <= response.status /\ response.status <= hi

DefaultOf(tl) == IF tl = "get_log_stats" THEN JObj(<<>>) ELSE JList(<<>>)

WellFormedBody ==
    CASE tool \in {"query_range", "instant_query"} -> response.body = "streams"
      [] tool \in {"get_labels", "get_label_values"} -> response.body = "labels"
      [] OTHER -> response.body = "no_data"

C2_Original ==
    (/\ tool = "query_range"
     /\ pc # "idle"
     /\ request.start # None
     /\ request.end # None
     /\ ~Malformed(request.interval)
     /\ ~Malformed(request.step))
        => /\ Len(sent) = 1
           /\ sent[1].params.start = request.start
           /\ sent[1].params.end = request.end

\* C3: in query_range the end sent is request.end when set and the clock
\* otherwise, and with request.start unset the start sent is that end minus
\* the parsed duration.  (Stated for requests whose end is unset or non-zero;
\* an end of 0 is the case C2 is about.)
C3_Original ==
    (/\ tool = "query_range"
     /\ Len(sent) = 1
     /\ request.start = None
     /\ request.end # Some(0))
        => LET effEnd == IF request.end # None THEN request.end[1] ELSE clock
               dur    == parse_interval(Selected).minutes
           IN  /\ sent[1].params.end = Some(effEnd)
               /\ sent[1].params.start = Some(effEnd - dur)

\* C4: every parameter set query_range sends has start <= end.  (Stated for
\* durations that are not negative, so that a violation does not rest on the
\* parser accepting a negative prefix.)
C4_Original ==
    (/\ tool = "query_range"
     /\ Len(sent) = 1
     /\ parse_interval(Selected).minutes >= 0)
        => sent[1].params.start[1] <= sent[1].params.end[1]

\* C5 (as amended): in query_range, when interval is a non-empty string and
\* step is present, the duration used to derive the start timestamp is
\* parse_interval(interval), whatever step is.
C5_IntervalBeforeStep ==
    (/\ tool = "query_range"
     /\ pc # "idle"
     /\ request.interval # None
     /\ request.interval # Some(<<>>)
     /\ request.step # None)
        => LET d == parse_interval(request.interval)
           IN  IF d.kind = "timedelta"
               THEN start_timestamp = Some(clock - d.minutes)
               ELSE outcome.kind = "raise" /\ sent = <<>>

C5_Witness ==
    /\ tool = "query_range"
    /\ pc = "sent"
    /\ request.interval = Some(<<"2", "m">>)
    /\ request.step = Some(<<"1", "h">>)
    /\ start_timestamp = Some(clock - 2)

\* C5 (as stated): in query_range, when interval and step are both present,
\* the duration used to derive the start timestamp is parse_interval(interval),
\* whatever step is.
C5_Original ==
    (/\ tool = "query_range"
     /\ pc # "idle"
     /\ request.interval # None
     /\ request.step # None)
        => LET d == parse_interval(request.interval)
           IN  IF d.kind = "timedelta"
               THEN start_timestamp = Some(clock - d.minutes)
               ELSE outcome.kind = "raise" /\ sent = <<>>

\* C6: a query_range call whose selected interval/step string is malformed
\* raises to the caller before any HTTP request goes out, and a tool call
\* raises to the caller only because of a malformed interval/step string.
\* (The second half is stated for calls that do give a window: a query_range
\* call with neither interval nor step and without both start and end is
\* left aside.)
C6_Original ==
    /\ (tool = "query_range" /\ pc # "idle" /\ Malformed(Selected))
          => (outcome.kind = "raise" /\ sent = <<>>)
    /\ (/\ outcome.kind = "raise"
        /\ ~(/\ tool = "query_range"
              /\ Selected = None
              /\ (request.start = None \/ request.end = None)))
          => (tool = "query_range" /\ Malformed(Selected))

\* the strings the specification of parse_interval accepts: one or more
\* digits followed by m, h or d
SpecAccepts(s) ==
    /\ Len(s) >= 2
    /\ s[Len(s)] \in {"m", "h", "d"}
    /\ \A i \in 1..(Len(s) - 1) : s[i] \in {"0", "1", "2", "3", "4", "5", "6", "7", "8", "9"}

SpecMinutes(s) ==
    DecVal(SubSeq(s, 1, Len(s) - 1))
        * (CASE s[Len(s)] = "m" -> 1 [] s[Len(s)] = "h" -> 60 [] s[Len(s)] = "d" -> 1440)

\* C7: parse_interval(s) succeeds exactly when s is a non-negative integer
\* followed by m, h or d, giving that many minutes, hours or days; on every
\* other string (a negative prefix included) it fails with the
\* invalid-interval error.
C7_Original ==
    ret # NoRet
        => IF SpecAccepts(arg[1])
           THEN ret = [kind |-> "timedelta", minutes |-> SpecMinutes(arg[1])]
           ELSE ret.kind = "ValueError"

\* C8: a get_label_values call with an empty or absent label issues no HTTP
\* request.
C8_Original ==
    (tool = "get_label_values" /\ (request.label = None \/ request.label = Some("")))
        => sent = <<>>

\* C9: on a 2xx response whose JSON body lacks the expected keys or has them
\* in another shape, query_range and instant_query (data.result) and
\* get_labels and get_label_values (data) return an empty list and do not fail.
C9_Original ==
    (/\ pc = "done"
     /\ HttpStatusIn(200, 299)
     /\ \/ /\ tool \in {"query_range", "instant_query"}
           /\ response.body \in {"no_data", "data_null", "data_empty", "labels", "array"}
        \/ /\ tool \in {"get_labels", "get_label_values"}
           /\ response.body \in {"no_data", "data_null", "array"})
        => outcome = [kind |-> "return", value |-> JList(<<>>), exc |-> ""]

====
